---- MODULE Spec2Model ----
(***************************************************************************)
(* A model of aiofile's asynchronous operation engine.                     *)
(*                                                                         *)
(*   posix_aio.pyx  AIOOperation (states INIT/RUN/DONE/CLOSED), the global *)
(*                  SimpleSemaphore, OP_MAP and on_event;                  *)
(*   _aio.pyx       AIOFile.read / write / flush, which build operations;  *)
(*   aio.pyx        the polling AIOOperation (run / poll / result / close).*)
(*                                                                         *)
(* The POSIX AIO facility (aio_read, aio_write, aio_fsync, aio_error,      *)
(* aio_return, aio_cancel) is the environment: it accepts or rejects a     *)
(* submission, completes or fails a pending request, and raises the        *)
(* SIGEV_THREAD notification.                                              *)
(***************************************************************************)
EXTENDS Integers, Sequences, FiniteSets, TLC

\* ------------------------------------------------------------------ bounds
NOps == 3       \* operation objects the callers may build
NTasks == 3     \* tasks that may await them
MaxLen == 2     \* longest byte string written
MaxOff == 1     \* largest offset passed by a caller
MaxSubmits == 2 \* most submissions of one request the facility is shown accepting
MaxWrites == 3  \* most calls of one Writer
MaxChunk == 3   \* largest chunk size of a Reader
MaxEnds == 2    \* iteration steps followed after the end of a sequence
MaxNotifs == 2  \* most notifications delivered for one operation

Ops == 1..NOps
Tasks == 1..NTasks
Bytes == {1, 2}
Offsets == 0..MaxOff
Lengths == 0..MaxLen

\* Byte strings of length 0..MaxLen over Bytes (0 is the NUL byte of calloc).
DataSet == UNION {[1..n -> Bytes] : n \in Lengths}

\* The one shared file handle (AIOFile.__fileno).
Fd == 3

\* uint32_t arithmetic of SimpleSemaphore, scaled from 2^32 to 2^30 so that the
\* model checker's integers hold it; the initial ceiling is half of it.
UINT32_MOD == 1073741824

VARIABLES
    ops,         \* AIOOperation objects (posix_aio.pyx)
    args,        \* what the caller passed when the operation was built
    tasks,       \* the tasks awaiting operations: position in __await__, outcome
    semaphore,   \* the global SimpleSemaphore
    OP_MAP,      \* cid -> operation registry used by on_event
    req,         \* the facility's view of each submitted request
    events,      \* per operation: notification raised, hand-off queued, Event set
    file,        \* the file's bytes
    SIGEV_TYPE,  \* completion strategy of the platform
    crashed,     \* the process died on a NULL dereference
    uaf,         \* the facility used a control block/buffer after free()
    lop,         \* the polling AIOOperation of aio.pyx
    lreq,        \* the facility's view of its request
    ltask,       \* the task awaiting it
    lcall,       \* the last direct call on it and the error it raised
    writer,      \* the Writer helper: cursor and the write it awaits
    reader,      \* the Reader helper: offset, chunk size, chunks yielded
    linereader,  \* the LineReader helper: carry, separator, lines returned
    top,         \* the callback-notified AIOOperation of _aio.pyx
    treq,        \* the facility's view of its request
    ttask        \* the task awaiting it

helperVars == <<writer, reader, linereader>>

threadVars == <<top, treq, ttask>>

vars == <<ops, args, tasks, semaphore, OP_MAP, req, events, file, SIGEV_TYPE,
          crashed, uaf, lop, lreq, ltask, lcall, helperVars, threadVars>>

\* ------------------------------------------------------------ byte helpers
Min(a, b) == IF a < b THEN a ELSE b
Max(a, b) == IF a > b THEN a ELSE b

\* calloc(n, 1)
Zeros(n) == [i \in 1..n |-> 0]

\* memcpy(buf, data, len(data))
Memcpy(buf, data) ==
    [i \in 1..Len(buf) |-> IF i <= Len(data) THEN data[i] ELSE buf[i]]

\* pread(fd, buf, n, off) on a regular file: stops at end of file.
FileRead(f, off, n) ==
    IF off >= Len(f) THEN <<>> ELSE SubSeq(f, off + 1, Min(Len(f), off + n))

\* pwrite(fd, data, len, off) on a regular file: a gap is filled with NUL.
FileWrite(f, off, data) ==
    IF Len(data) = 0 THEN f
    ELSE [i \in 1..Max(Len(f), off + Len(data)) |->
            IF i > off /\ i <= off + Len(data) THEN data[i - off]
            ELSE IF i <= Len(f) THEN f[i] ELSE 0]

\* ------------------------------------------------- AIOOperation (posix_aio)
NoOp ==
    [st |-> "NONE", opcode |-> "NONE", fildes |-> 0, offset |-> 0, nbytes |-> 0,
     buf |-> <<>>, size |-> 0, null |-> FALSE, frees |-> 0, ref |-> "none"]

\* __cinit__ dropping the caller's offset
Cinit_NoOffset(opcode, fd, offset, nbytes) ==
    [st |-> "INIT", opcode |-> opcode, fildes |-> fd, offset |-> 0,
     nbytes |-> nbytes, buf |-> Zeros(nbytes + 1), size |-> 0, null |-> FALSE,
     frees |-> 0, ref |-> "held"]

\* AIOOperation.__cinit__
Cinit(opcode, fd, offset, nbytes) ==
    [st |-> "INIT", opcode |-> opcode, fildes |-> fd, offset |-> offset,
     nbytes |-> nbytes, buf |-> Zeros(nbytes + 1), size |-> 0, null |-> FALSE,
     frees |-> 0, ref |-> "held"]

done(op) == op.st = "DONE"

\* is_running() that never sees a running operation
is_running_Never(op) == FALSE

is_running(op) == op.st = "RUN"

\* a getter handing out the whole allocation
BufferGet_Whole(op) ==
    IF op.null THEN [err |-> "Null buffer access", val |-> <<>>]
    ELSE [err |-> "", val |-> op.buf]

\* a getter slicing one byte too far to the right
BufferGet_Shifted(op) ==
    IF op.null THEN [err |-> "Null buffer access", val |-> <<>>]
    ELSE [err |-> "", val |-> SubSeq(op.buf, 2, op.size + 1)]

\* buffer (getter): self.__buffer[:self.size]
BufferGet(op) ==
    IF op.null THEN [err |-> "Null buffer access", val |-> <<>>]
    ELSE [err |-> "", val |-> SubSeq(op.buf, 1, op.size)]

\* a setter that moves the offset past the data, as a file cursor would
BufferSet_Advance(op, data) ==
    IF op.opcode # "LIO_WRITE" THEN [err |-> "TypeError", op |-> op]
    ELSE IF done(op) THEN [err |-> "Invalid state", op |-> op]
    ELSE IF Len(data) > op.nbytes THEN [err |-> "Data too long", op |-> op]
    ELSE [err |-> "",
          op |-> [op EXCEPT !.buf = Memcpy(@, data), !.nbytes = Len(data),
                            !.size = Len(data), !.offset = @ + Len(data)]]

\* buffer (setter), on an operation whose control block is not freed
BufferSet(op, data) ==
    IF op.opcode # "LIO_WRITE" THEN [err |-> "TypeError", op |-> op]
    ELSE IF done(op) THEN [err |-> "Invalid state", op |-> op]
    ELSE IF Len(data) > op.nbytes THEN [err |-> "Data too long", op |-> op]
    ELSE [err |-> "",
          op |-> [op EXCEPT !.buf = Memcpy(@, data), !.nbytes = Len(data),
                            !.size = Len(data)]]

\* close(): free(buffer), free(cb), both pointers set to NULL; free(NULL)
\* releases nothing
Close(op) ==
    IF op.st = "CLOSED" THEN op
    ELSE [op EXCEPT !.st = "CLOSED", !.buf = <<>>, !.null = TRUE,
                    !.fildes = 0, !.offset = 0, !.nbytes = 0,
                    !.frees = IF op.null THEN @ ELSE @ + 1]

\* ------------------------------------------------------- SimpleSemaphore
\* release() that keeps the slot
Release_Keeps(s) == s

Release(s) == IF s.value > 0 THEN [s EXCEPT !.value = @ - 1] ELSE s

SetMaxValue(s) == [s EXCEPT !.max_value = (s.value - 1) % UINT32_MOD]

CanAcquire_Always(s) == TRUE

CanAcquire(s) == ~(s.value >= s.max_value)

Acquire(s) == [s EXCEPT !.value = (@ + 1) % UINT32_MOD]

\* ---------------------------------------------------------------- facility
\* rejected: the code with which the facility turned the last submission
\* away, "" if it took it or none was made; cancels: aio_cancel() calls made.
NoReq ==
    [st |-> "none", ret |-> 0, err |-> "", accepted |-> 0, rejected |-> "",
     cancels |-> 0]

\* aio_error(cb) for a request the facility knows
AioError(r) ==
    CASE r.st = "pending"  -> "EINPROGRESS"
      [] r.st = "ok"       -> "0"
      [] r.st = "canceled" -> "ECANCELED"
      [] r.st = "err"      -> r.err
      [] OTHER             -> "0"

\* aio_return(cb)
AioReturn(r) == IF r.st = "ok" THEN r.ret ELSE -1

SubmitResults == {"OK", "EAGAIN", "EINVAL"}

\* What aio_error(cb) answers right after the call was turned away with code:
\* the code, or -1 with errno EINVAL (the request is not outstanding), or 0
\* (the control block holds no error code).
AioErrorAnswers(code) == IF code = "OK" THEN {"0"} ELSE {code, "-1", "0"}

\* aio_read() / aio_write() / aio_fsync() of the operation: "" when it
\* returns, else the code of the SystemError it raises (errorcode[errno]).
SubmitOutcome(sub, ae) ==
    IF sub = "OK" \/ ae = "0" THEN ""
    ELSE IF ae = "-1" THEN "EINVAL"
    ELSE sub
FacilityErrors == {"EIO"}

NoRes == [kind |-> "none", code |-> "", val |-> <<>>]
Raised(kind, code) == [kind |-> kind, code |-> code, val |-> <<>>]
Returned(bytes) == [kind |-> "ok", code |-> "", val |-> bytes]
NoTask == [op |-> 0, pc |-> "idle", res |-> NoRes]
NoEvents == [notif |-> FALSE, handoff |-> FALSE, event |-> FALSE, delivered |-> 0]
NoArgs == [opcode |-> "NONE", offset |-> 0, nbytes |-> 0, data |-> <<>>]

\* aio.pyx: an operation not built yet, no call made yet
NoLegacyOp ==
    [built |-> FALSE, state |-> "NONE", offset |-> 0, nbytes |-> 0,
     buffer_size |-> 0, buf |-> <<>>, is_running |-> FALSE, closed |-> FALSE,
     result |-> [set |-> FALSE, val |-> <<>>], frees |-> 0, overflow |-> FALSE]
NoCall == [name |-> "", err |-> ""]

\* _aio.pyx: an operation not built yet; state is the __state field that
\* sigev_value.sival_ptr points to, freed is the object's own memory
NoThreadOp ==
    [built |-> FALSE, state |-> "NONE", opcode |-> "NONE", offset |-> 0,
     nbytes |-> 0, buffer_size |-> 0, buf |-> <<>>, freed |-> FALSE]
NoThreadReq ==
    [st |-> "none", ret |-> 0, err |-> "", notif |-> FALSE, kind |-> "NONE",
     stale |-> FALSE]
NoLegacyReq == [st |-> "none", ret |-> 0, err |-> "", accepted |-> 0, errno |-> "0"]

\* What the file holds when it is opened: nothing, or two bytes.
InitFiles == {<<>>, <<2, 1>>}

\* The helpers before they are constructed.
NoWriter ==
    [built |-> FALSE, start |-> 0, cursor |-> 0, busy |-> FALSE, op |-> NoOp,
     calls |-> 0, passed |-> 0, written |-> 0]

NoReader ==
    [built |-> FALSE, start |-> 0, offset |-> 0, chunk_size |-> 1,
     exhausted |-> FALSE, chunks |-> <<>>, ends |-> 0]

NoLineReader ==
    [built |-> FALSE, separator |-> <<1>>, carry |-> <<>>, exhausted |-> FALSE,
     lines |-> <<>>, ends |-> 0]

InitEngine ==
    /\ ops = [o \in Ops |-> NoOp]
    /\ args = [o \in Ops |-> NoArgs]
    /\ tasks = [t \in Tasks |-> NoTask]
    /\ semaphore = [value |-> 0, max_value |-> UINT32_MOD \div 2]
    /\ OP_MAP = {}
    /\ req = [o \in Ops |-> NoReq]
    /\ events = [o \in Ops |-> NoEvents]
    /\ file \in InitFiles
    /\ SIGEV_TYPE \in {"SIGEV_THREAD", "SIGEV_NONE"}
    /\ crashed = FALSE
    /\ uaf = FALSE
    /\ lop = NoLegacyOp
    /\ lreq = NoLegacyReq
    /\ ltask = NoTask
    /\ lcall = NoCall
    /\ top = NoThreadOp
    /\ treq = NoThreadReq
    /\ ttask = NoTask

Init ==
    /\ InitEngine
    /\ writer = NoWriter
    /\ reader = NoReader
    /\ linereader = NoLineReader

ReadSizes == Lengths \cup {-1}

\* ------------------------------------------------------ AIOFile (_aio.pyx)
\* AIOFile.read(size, offset): size -1 means the whole file (fstat)
AIOFile_read(size, offset) ==
    Cinit("LIO_READ", Fd, offset, IF size = -1 THEN Len(file) ELSE size)

\* write() returning the operation without storing the data in it
AIOFile_write_NoData(data, offset) == Cinit("LIO_WRITE", Fd, offset, Len(data))

\* AIOFile.write(data, offset): the operation, then op.buffer = data
AIOFile_write(data, offset) ==
    BufferSet(Cinit("LIO_WRITE", Fd, offset, Len(data)), data).op

\* AIOFile.flush()
AIOFile_flush == Cinit("LIO_NOP", Fd, 0, 0)

\* __cinit__ registers the operation in OP_MAP when SIGEV_TYPE is SIGEV_THREAD
Register(o) == IF SIGEV_TYPE = "SIGEV_THREAD" THEN OP_MAP \cup {o} ELSE OP_MAP

Built(o) == ops[o].ref # "none"

\* Slot o is the next free one.  A process loads one of the two extension
\* modules: operations of posix_aio.pyx are not mixed with aio.pyx's.
Free(o) ==
    /\ ~lop.built
    /\ ~top.built
    /\ ops[o].ref = "none"
    /\ \A p \in Ops : p < o => ops[p].ref # "none"

Read(o, size, offset) ==
    /\ ~crashed
    /\ Free(o)
    /\ ops' = [ops EXCEPT ![o] = AIOFile_read(size, offset)]
    /\ args' = [args EXCEPT ![o] = [opcode |-> "LIO_READ", offset |-> offset,
                                    nbytes |-> size, data |-> <<>>]]
    /\ OP_MAP' = Register(o)
    /\ UNCHANGED <<tasks, semaphore, req, events, file, SIGEV_TYPE, crashed, uaf, lop, lreq, ltask, lcall, helperVars, threadVars>>

Write(o, data, offset) ==
    /\ ~crashed
    /\ Free(o)
    /\ ops' = [ops EXCEPT ![o] = AIOFile_write(data, offset)]
    /\ args' = [args EXCEPT ![o] = [opcode |-> "LIO_WRITE", offset |-> offset,
                                    nbytes |-> Len(data), data |-> data]]
    /\ OP_MAP' = Register(o)
    /\ UNCHANGED <<tasks, semaphore, req, events, file, SIGEV_TYPE, crashed, uaf, lop, lreq, ltask, lcall, helperVars, threadVars>>

Flush(o) ==
    /\ ~crashed
    /\ Free(o)
    /\ ops' = [ops EXCEPT ![o] = AIOFile_flush]
    /\ args' = [args EXCEPT ![o] = [opcode |-> "LIO_NOP", offset |-> 0,
                                    nbytes |-> 0, data |-> <<>>]]
    /\ OP_MAP' = Register(o)
    /\ UNCHANGED <<tasks, semaphore, req, events, file, SIGEV_TYPE, crashed, uaf, lop, lreq, ltask, lcall, helperVars, threadVars>>

\* op.buffer = data, by the caller holding the operation.  On a closed
\* operation the setter reads self.cb.aio_lio_opcode through a NULL pointer.
SetBuffer(o, data) ==
    /\ ~crashed
    /\ ops[o].ref = "held"
    /\ IF ops[o].null
       THEN crashed' = TRUE /\ ops' = ops
       ELSE crashed' = crashed /\ ops' = [ops EXCEPT ![o] = BufferSet(@, data).op]
    /\ UNCHANGED <<args, tasks, semaphore, OP_MAP, req, events, file, SIGEV_TYPE, uaf, lop, lreq, ltask, lcall, helperVars, threadVars>>

\* op.close(), by the caller holding the operation
CloseOp(o) ==
    /\ ~crashed
    /\ ops[o].ref = "held"
    /\ ops' = [ops EXCEPT ![o] = Close(@)]
    /\ UNCHANGED <<args, tasks, semaphore, OP_MAP, req, events, file, SIGEV_TYPE,
                   crashed, uaf, lop, lreq, ltask, lcall, helperVars, threadVars>>

Active(t) == tasks[t].pc \in {"acquire", "reacquire", "wait", "poll"}

\* __dealloc__: the last reference is gone (the caller's, the awaiting
\* generators' and OP_MAP's): close(), then OP_MAP.pop(cid)
Dealloc(o) ==
    /\ ~crashed
    /\ ops[o].ref = "held"
    /\ o \notin OP_MAP
    /\ \A t \in Tasks : Active(t) => tasks[t].op # o
    /\ ops' = [ops EXCEPT ![o] = [Close(@) EXCEPT !.ref = "dropped"]]
    /\ OP_MAP' = OP_MAP \ {o}
    /\ UNCHANGED <<args, tasks, semaphore, req, events, file, SIGEV_TYPE, crashed, uaf, lop, lreq, ltask, lcall, helperVars, threadVars>>

\* ------------------------------------------------ AIOOperation.__await__
\* The end of an await: the outcome, and the finally clause's release().
Finish(t, res, sem) ==
    /\ tasks' = [tasks EXCEPT ![t].pc = "finished", ![t].res = res]
    /\ semaphore' = Release(sem)

\* await op: the generator runs up to the first yield of semaphore.acquire()
AwaitStart(t, o) ==
    /\ ~crashed
    /\ tasks[t].pc = "idle"
    /\ ops[o].ref = "held"
    /\ tasks' = [tasks EXCEPT ![t].op = o, ![t].pc = "acquire"]
    /\ UNCHANGED <<ops, args, semaphore, OP_MAP, req, events, file, SIGEV_TYPE,
                   crashed, uaf, lop, lreq, ltask, lcall, helperVars, threadVars>>

\* The submission loop (while True: aio_read / aio_write / aio_fsync), entered
\* with the slot held (sem) and the state set to RUN (ops1).
SubmitLoop(t, o, sem) ==
    \E r \in SubmitResults : \E ae \in AioErrorAnswers(r) :
        LET out == SubmitOutcome(r, ae)
            tried == [req[o] EXCEPT !.rejected = IF r = "OK" THEN "" ELSE r]
        IN  \/ /\ out = ""
               /\ req' = [req EXCEPT ![o] =
                      IF r = "OK"
                      THEN [tried EXCEPT !.st = "pending", !.ret = 0, !.err = "",
                                         !.accepted = @ + 1]
                      ELSE tried]
               /\ tasks' = [tasks EXCEPT ![t].pc =
                      IF SIGEV_TYPE = "SIGEV_THREAD" THEN "wait" ELSE "poll"]
               /\ semaphore' = sem
            \/ /\ out = "EINVAL"
               /\ semaphore' = SetMaxValue(Release(sem))
               /\ tasks' = [tasks EXCEPT ![t].pc = "reacquire"]
               /\ req' = [req EXCEPT ![o] = tried]
            \/ /\ out \notin {"", "EINVAL"}
               /\ Finish(t, Raised("SystemError", out), sem)
               /\ req' = [req EXCEPT ![o] = tried]

\* acquire() admits the task; then the done/running checks and the first
\* submission.  A closed operation passes both checks, is set to RUN and its
\* freed control block (NULL) is dereferenced.
AcquireResume(t) ==
    LET o == tasks[t].op
        sem == Acquire(semaphore)
    IN  /\ ~crashed
        /\ tasks[t].pc = "acquire"
        /\ CanAcquire(semaphore)
        /\ IF done(ops[o])
           THEN /\ Finish(t, Raised("RuntimeError", "Operation already done"), sem)
                /\ UNCHANGED <<ops, req, crashed>>
           ELSE IF is_running(ops[o])
           THEN /\ Finish(t, Raised("RuntimeError", "Operation already in progress"), sem)
                /\ UNCHANGED <<ops, req, crashed>>
           ELSE /\ ops' = [ops EXCEPT ![o].st = "RUN"]
                /\ IF ops[o].null
                   THEN /\ crashed' = TRUE
                        /\ semaphore' = sem
                        /\ UNCHANGED <<tasks, req>>
                   ELSE /\ crashed' = crashed
                        /\ SubmitLoop(t, o, sem)
        /\ UNCHANGED <<args, OP_MAP, events, file, SIGEV_TYPE, uaf, lop, lreq, ltask, lcall, helperVars, threadVars>>

\* acquire() admits the task again after a rejected submission; the
\* submission is retried.
ReacquireResume(t) ==
    LET o == tasks[t].op
    IN  /\ ~crashed
        /\ tasks[t].pc = "reacquire"
        /\ CanAcquire(semaphore)
        /\ IF ops[o].null
           THEN /\ crashed' = TRUE
                /\ semaphore' = Acquire(semaphore)
                /\ UNCHANGED <<tasks, req>>
           ELSE /\ crashed' = crashed
                /\ SubmitLoop(t, o, Acquire(semaphore))
        /\ UNCHANGED <<ops, args, OP_MAP, events, file, SIGEV_TYPE, uaf, lop, lreq, ltask, lcall, helperVars, threadVars>>

\* self.__state = AIO_OP_DONE; aio_return; self.size = rresult; return self.buffer
Completed(op, r) ==
    IF AioReturn(r) < 0 THEN [op EXCEPT !.st = "DONE"]
    ELSE [op EXCEPT !.st = "DONE", !.size = AioReturn(r)]

CompletedResult(op, r) ==
    IF AioReturn(r) < 0 THEN Raised("SystemError", "EPERM")
    ELSE Returned(BufferGet(Completed(op, r)).val)

\* The SIGEV_THREAD branch once event.wait() has returned: a non-zero
\* aio_error raises, else the operation is completed.
SignalBranch(op, r) ==
    IF AioError(r) # "0"
    THEN [ends |-> TRUE, res |-> Raised("SystemError", AioError(r)), op |-> op]
    ELSE [ends |-> TRUE, res |-> CompletedResult(op, r), op |-> Completed(op, r)]

\* One pass of the SIGEV_NONE loop: 0 completes the operation, -1 raises,
\* anything else (EINPROGRESS or an error code) yields.
PollBranch(op, r) ==
    IF AioError(r) = "0"
    THEN [ends |-> TRUE, res |-> CompletedResult(op, r), op |-> Completed(op, r)]
    ELSE IF AioError(r) = "-1"
    THEN [ends |-> TRUE, res |-> Raised("SystemError", "errno"), op |-> op]
    ELSE [ends |-> FALSE, res |-> NoRes, op |-> op]

\* SIGEV_THREAD: event.wait() returned; aio_error decides
WaitResume(t) ==
    LET o == tasks[t].op
    IN  /\ ~crashed
        /\ tasks[t].pc = "wait"
        /\ events[o].event
        /\ IF ops[o].null
           THEN crashed' = TRUE /\ UNCHANGED <<ops, tasks, semaphore>>
           ELSE /\ crashed' = crashed
                /\ Finish(t, SignalBranch(ops[o], req[o]).res, semaphore)
                /\ ops' = [ops EXCEPT ![o] = SignalBranch(@, req[o]).op]
        /\ UNCHANGED <<args, OP_MAP, req, events, file, SIGEV_TYPE, uaf, lop, lreq, ltask, lcall, helperVars, threadVars>>

\* SIGEV_NONE: one more aio_error; 0 ends the loop, -1 raises, anything else
\* (EINPROGRESS or an error code) yields again, which changes nothing.
PollResume(t) ==
    LET o == tasks[t].op
    IN  /\ ~crashed
        /\ tasks[t].pc = "poll"
        /\ IF ops[o].null
           THEN crashed' = TRUE /\ UNCHANGED <<ops, tasks, semaphore>>
           ELSE /\ crashed' = crashed
                /\ PollBranch(ops[o], req[o]).ends
                /\ Finish(t, PollBranch(ops[o], req[o]).res, semaphore)
                /\ ops' = [ops EXCEPT ![o] = PollBranch(@, req[o]).op]
        /\ UNCHANGED <<args, OP_MAP, req, events, file, SIGEV_TYPE, uaf, lop, lreq, ltask, lcall, helperVars, threadVars>>

\* task.cancel(): CancelledError is thrown in at the yield the task waits at.
\* except CancelledError: aio_cancel() if the operation is running; finally
\* release().  The facility takes the cancel (taken) or not.
Cancel(t) ==
    LET o == tasks[t].op
    IN  /\ ~crashed
        /\ Active(t)
        /\ Finish(t, Raised("CancelledError", ""), semaphore)
        /\ \E taken \in BOOLEAN :
              IF is_running(ops[o]) /\ req[o].st = "pending" /\ taken
              THEN /\ req' = [req EXCEPT ![o].st = "canceled",
                                         ![o].cancels = @ + 1]
                   /\ events' = [events EXCEPT ![o].notif =
                                    (SIGEV_TYPE = "SIGEV_THREAD")]
              ELSE /\ ~taken
                   /\ req' = [req EXCEPT ![o].cancels =
                                  IF is_running(ops[o]) THEN @ + 1 ELSE @]
                   /\ events' = events
        /\ UNCHANGED <<ops, args, OP_MAP, file, SIGEV_TYPE, crashed, uaf, lop, lreq, ltask, lcall, helperVars, threadVars>>

\* -------------------------------------------------------------- facility
\* Bytes a write may transfer: all of them, or fewer (short write).
WriteCounts(n) == IF n = 0 THEN {0} ELSE 1..n

\* The facility carries out a pending request through the control block and
\* the buffer the operation handed over.  If close() freed them meanwhile it
\* works on freed memory: anything may follow, the process may die.
FacilityComplete(o) ==
    /\ ~crashed
    /\ req[o].st = "pending"
    /\ events' = [events EXCEPT ![o].notif = (SIGEV_TYPE = "SIGEV_THREAD")]
    /\ IF ops[o].null
       THEN /\ uaf' = TRUE
            /\ crashed' \in BOOLEAN
            /\ req' = [req EXCEPT ![o].st = "ok", ![o].ret = 0]
            /\ UNCHANGED <<ops, file>>
       ELSE /\ UNCHANGED <<uaf, crashed>>
            /\ CASE ops[o].opcode = "LIO_READ" ->
                      LET data == FileRead(file, ops[o].offset, ops[o].nbytes)
                      IN  /\ ops' = [ops EXCEPT ![o].buf = Memcpy(@, data)]
                          /\ req' = [req EXCEPT ![o].st = "ok", ![o].ret = Len(data)]
                          /\ file' = file
                 [] ops[o].opcode = "LIO_WRITE" ->
                      \E n \in WriteCounts(ops[o].nbytes) :
                          /\ file' = FileWrite(file, ops[o].offset,
                                               SubSeq(ops[o].buf, 1, n))
                          /\ req' = [req EXCEPT ![o].st = "ok", ![o].ret = n]
                          /\ ops' = ops
                 [] OTHER ->
                      /\ req' = [req EXCEPT ![o].st = "ok", ![o].ret = 0]
                      /\ UNCHANGED <<ops, file>>
    /\ UNCHANGED <<args, tasks, semaphore, OP_MAP, SIGEV_TYPE, lop, lreq, ltask, lcall, helperVars, threadVars>>

\* The facility fails a pending request: aio_error will report the code.
FacilityFail(o, e) ==
    /\ ~crashed
    /\ req[o].st = "pending"
    /\ req' = [req EXCEPT ![o].st = "err", ![o].err = e]
    /\ events' = [events EXCEPT ![o].notif = (SIGEV_TYPE = "SIGEV_THREAD")]
    /\ UNCHANGED <<ops, args, tasks, semaphore, OP_MAP, file, SIGEV_TYPE, crashed, uaf, lop, lreq, ltask, lcall, helperVars, threadVars>>

\* on_event looking the operation up without removing it (OP_MAP.get)
on_event_NoPop(o) ==
    /\ ~crashed
    /\ events[o].notif
    /\ OP_MAP' = OP_MAP
    /\ events' = [events EXCEPT ![o].notif = FALSE,
                                ![o].handoff = @ \/ (o \in OP_MAP),
                                ![o].delivered = @ + 1]
    /\ UNCHANGED <<ops, args, tasks, semaphore, req, file, SIGEV_TYPE, crashed, uaf, lop, lreq, ltask, lcall, helperVars, threadVars>>

\* on_event, on the facility's thread: op = OP_MAP.pop(cid); op._set_result()
\* queues event.set on the loop with call_soon_threadsafe.  delivered counts
\* the notifications delivered for the operation.
on_event(o) ==
    /\ ~crashed
    /\ events[o].notif
    /\ OP_MAP' = OP_MAP \ {o}
    /\ events' = [events EXCEPT ![o].notif = FALSE,
                                ![o].handoff = @ \/ (o \in OP_MAP),
                                ![o].delivered = @ + 1]
    /\ UNCHANGED <<ops, args, tasks, semaphore, req, file, SIGEV_TYPE, crashed, uaf, lop, lreq, ltask, lcall, helperVars, threadVars>>

\* The loop runs the queued event.set
EventSet(o) ==
    /\ ~crashed
    /\ events[o].handoff
    /\ events' = [events EXCEPT ![o].handoff = FALSE, ![o].event = TRUE]
    /\ UNCHANGED <<ops, args, tasks, semaphore, OP_MAP, req, file, SIGEV_TYPE,
                   crashed, uaf, lop, lreq, ltask, lcall, helperVars, threadVars>>


\* The steps of the engine for the operations OS awaited by the tasks TS;
\* Awaits says which task may await which operation.
Engine(OS, TS, Awaits) ==
    \/ \E t \in TS, o \in OS : <<t, o>> \in Awaits /\ AwaitStart(t, o)
    \/ \E t \in TS : AcquireResume(t)
    \/ \E t \in TS : ReacquireResume(t)
    \/ \E t \in TS : WaitResume(t)
    \/ \E t \in TS : PollResume(t)
    \/ \E o \in OS : FacilityComplete(o)
    \/ \E o \in OS, e \in FacilityErrors : FacilityFail(o, e)
    \/ \E o \in OS : on_event(o)
    \/ \E o \in OS : EventSet(o)

\* One operation, built by any AIOFile call, used in every way by its holder
\* and awaited by up to two tasks.
\* ------------------------------------------------- AIOOperation (aio.pyx)
\* AIOOperation.__init__
LegacyInit(state, offset, nbytes) ==
    [NoLegacyOp EXCEPT !.built = TRUE, !.state = state, !.offset = offset,
                       !.nbytes = nbytes,
                       !.buffer_size = IF state = "LIO_NOP" THEN 0 ELSE nbytes,
                       !.buf = Zeros(IF state = "LIO_NOP" THEN 0 ELSE nbytes)]

\* _handle_cerrors(): the exception chosen from the C errno
HandleCErrors(errno) ==
    CASE errno = "EAGAIN" -> "LimitationError"
      [] errno = "ENOSYS" -> "SystemError"
      [] errno # "0"      -> "RuntimeError"
      [] OTHER            -> ""

ClosedError == "Can't perform operation in when closed object"

\* buffer (setter): _check_closed(), then memcpy of len(data) bytes into the
\* _buffer_size bytes allocated; a longer data overruns the allocation.
LegacyBufferSet(op, data) ==
    IF op.closed THEN [err |-> ClosedError, op |-> op]
    ELSE [err |-> "",
          op |-> [op EXCEPT !.buf = Memcpy(@, data),
                            !.overflow = @ \/ Len(data) > op.buffer_size]]

\* buffer (getter): the whole allocation
LegacyBufferGet(op) ==
    IF op.closed THEN [err |-> ClosedError, val |-> <<>>]
    ELSE [err |-> "", val |-> SubSeq(op.buf, 1, op.buffer_size)]

\* AIOFile.read / write / flush of aio.pyx
LegacyFile_read(size, offset) ==
    LegacyInit("LIO_READ", offset, IF size = -1 THEN Len(file) ELSE size)

LegacyFile_write(data, offset) ==
    LegacyBufferSet(LegacyInit("LIO_READ", offset, Len(data)), data).op

LegacyFile_flush == LegacyInit("LIO_NOP", 0, 0)

\* run(), the facility answering sub to aio_read / aio_write / aio_fsync.
\* A failed call sets errno; a successful one leaves errno as it was.
LegacyRun(op, r, sub) ==
    IF op.is_running
    THEN [err |-> "Operation already in progress", op |-> op, req |-> r]
    ELSE LET r1 == IF sub = "OK"
                   THEN [r EXCEPT !.st = "pending", !.accepted = @ + 1]
                   ELSE [r EXCEPT !.errno = sub,
                                  !.st = IF @ = "none" THEN "rejected" ELSE @,
                                  !.err = IF r.st = "none" THEN sub ELSE @]
             e == HandleCErrors(r1.errno)
         IN  [err |-> e,
              op |-> [op EXCEPT !.is_running = (e # "LimitationError")],
              req |-> r1]

\* poll(): TRUE while the request is in progress
LegacyPoll(op, r) ==
    IF op.closed THEN [err |-> ClosedError, val |-> FALSE]
    ELSE IF ~op.is_running
    THEN [err |-> "Can't perform pool on not running operation", val |-> FALSE]
    ELSE IF AioError(r) = "EINPROGRESS" THEN [err |-> "", val |-> TRUE]
    ELSE IF AioError(r) = "0" THEN [err |-> "", val |-> FALSE]
    ELSE [err |-> HandleCErrors(r.errno), val |-> FALSE]

\* result() handing out the buffer without asking poll()
LegacyResult_NoPoll(op, r) ==
    IF op.result.set THEN [err |-> "", val |-> op.result.val, op |-> op]
    ELSE [err |-> "", val |-> op.buf,
          op |-> [op EXCEPT !.result = [set |-> TRUE, val |-> op.buf]]]

\* result(): the first aio_return() bytes of the buffer, kept in _result; a
\* negative aio_return makes the slice fail.
LegacyResult(op, r) ==
    IF op.result.set THEN [err |-> "", val |-> op.result.val, op |-> op]
    ELSE IF LegacyPoll(op, r).err # ""
    THEN [err |-> LegacyPoll(op, r).err, val |-> <<>>, op |-> op]
    ELSE IF LegacyPoll(op, r).val
    THEN [err |-> "Operation in progress", val |-> <<>>, op |-> op]
    ELSE IF AioReturn(r) < 0
    THEN [err |-> "SystemError", val |-> <<>>, op |-> op]
    ELSE [err |-> "", val |-> SubSeq(op.buf, 1, AioReturn(r)),
          op |-> [op EXCEPT !.result = [set |-> TRUE,
                                        val |-> SubSeq(op.buf, 1, AioReturn(r))]]]

\* close(): _check_closed(), then both frees
LegacyClose(op) ==
    IF op.closed THEN [err |-> ClosedError, op |-> op]
    ELSE [err |-> "",
          op |-> [op EXCEPT !.closed = TRUE, !.buf = <<>>, !.frees = @ + 1]]

posixVars == <<ops, args, tasks, semaphore, OP_MAP, req, events, SIGEV_TYPE>>

LegacyFree == ~lop.built /\ ~top.built /\ \A o \in Ops : ~Built(o)

LegacyRead(size, offset) ==
    /\ ~crashed
    /\ LegacyFree
    /\ lop' = LegacyFile_read(size, offset)
    /\ UNCHANGED <<posixVars, file, crashed, uaf, lreq, ltask, lcall, helperVars, threadVars>>

LegacyWrite(data, offset) ==
    /\ ~crashed
    /\ LegacyFree
    /\ lop' = LegacyFile_write(data, offset)
    /\ UNCHANGED <<posixVars, file, crashed, uaf, lreq, ltask, lcall, helperVars, threadVars>>

LegacyFlush ==
    /\ ~crashed
    /\ LegacyFree
    /\ lop' = LegacyFile_flush
    /\ UNCHANGED <<posixVars, file, crashed, uaf, lreq, ltask, lcall, helperVars, threadVars>>

\* op.buffer = data
LegacySetBuffer(data) ==
    /\ ~crashed
    /\ lop.built
    /\ lop' = LegacyBufferSet(lop, data).op
    /\ lcall' = [name |-> "buffer", err |-> LegacyBufferSet(lop, data).err]
    /\ UNCHANGED <<posixVars, file, crashed, uaf, lreq, ltask, helperVars, threadVars>>

\* op.close()
LegacyCloseOp ==
    /\ ~crashed
    /\ lop.built
    /\ lop' = LegacyClose(lop).op
    /\ lcall' = [name |-> "close", err |-> LegacyClose(lop).err]
    /\ UNCHANGED <<posixVars, file, crashed, uaf, lreq, ltask, helperVars, threadVars>>

\* op.result()
LegacyResultCall ==
    /\ ~crashed
    /\ lop.built
    /\ lop' = LegacyResult(lop, lreq).op
    /\ lcall' = [name |-> "result", err |-> LegacyResult(lop, lreq).err]
    /\ UNCHANGED <<posixVars, file, crashed, uaf, lreq, ltask, helperVars, threadVars>>

\* One run() of __await__'s first loop.  run() does not look at _closed: on
\* a closed operation it hands the freed control block to the facility.
LegacyRunStep(r, sub) ==
    LET out == LegacyRun(lop, r, sub)
    IN  /\ sub = "OK" => r.accepted < MaxSubmits
        /\ lop' = out.op
        /\ lreq' = out.req
        /\ uaf' = (uaf \/ (lop.closed /\ ~lop.is_running))
        /\ IF lop.closed /\ ~lop.is_running
           THEN crashed' \in BOOLEAN ELSE crashed' = crashed
        /\ ltask' = [ltask EXCEPT
               !.pc = CASE out.err = "" -> "poll"
                        [] out.err = "LimitationError" -> "retry"
                        [] OTHER -> "finished",
               !.res = IF out.err \in {"", "LimitationError"} THEN NoRes
                       ELSE Raised(out.err, out.req.errno)]

\* await op: run() until it is not turned away for a resource limit
LegacyAwaitStart(sub) ==
    /\ ~crashed
    /\ lop.built
    /\ ltask.pc = "idle"
    /\ LegacyRunStep(lreq, sub)
    /\ UNCHANGED <<posixVars, file, lcall, helperVars, threadVars>>

\* The task is resumed after its yield.  The loop's own system calls ran in
\* between: errno is what run() left, or 0 if one of them cleared it.
LegacyAwaitRetry(sub, cleared) ==
    /\ ~crashed
    /\ ltask.pc = "retry"
    /\ LegacyRunStep(IF cleared THEN [lreq EXCEPT !.errno = "0"] ELSE lreq, sub)
    /\ UNCHANGED <<posixVars, file, lcall, helperVars, threadVars>>

\* while self.poll(): yield; return self.result()
LegacyAwaitPoll ==
    LET p == LegacyPoll(lop, lreq)
        out == LegacyResult(lop, lreq)
    IN  /\ ~crashed
        /\ ltask.pc = "poll"
        /\ ~(p.err = "" /\ p.val)
        /\ IF p.err # ""
           THEN /\ ltask' = [ltask EXCEPT !.pc = "finished",
                                          !.res = Raised(p.err, lreq.errno)]
                /\ lop' = lop
           ELSE /\ ltask' = [ltask EXCEPT !.pc = "finished",
                       !.res = IF out.err # "" THEN Raised(out.err, "")
                               ELSE Returned(out.val)]
                /\ lop' = out.op
        /\ UNCHANGED <<posixVars, file, crashed, uaf, lreq, lcall, helperVars, threadVars>>

\* The facility carries out the request (see FacilityComplete).
LegacyFacilityComplete ==
    /\ ~crashed
    /\ lreq.st = "pending"
    /\ IF lop.closed
       THEN /\ uaf' = TRUE
            /\ crashed' \in BOOLEAN
            /\ lreq' = [lreq EXCEPT !.st = "ok", !.ret = 0]
            /\ UNCHANGED <<lop, file>>
       ELSE /\ UNCHANGED <<uaf, crashed>>
            /\ CASE lop.state = "LIO_READ" ->
                      LET data == FileRead(file, lop.offset, lop.nbytes)
                      IN  /\ lop' = [lop EXCEPT !.buf = Memcpy(@, data)]
                          /\ lreq' = [lreq EXCEPT !.st = "ok", !.ret = Len(data)]
                          /\ file' = file
                 [] lop.state = "LIO_WRITE" ->
                      \E n \in WriteCounts(lop.nbytes) :
                          /\ file' = FileWrite(file, lop.offset, SubSeq(lop.buf, 1, n))
                          /\ lreq' = [lreq EXCEPT !.st = "ok", !.ret = n]
                          /\ lop' = lop
                 [] OTHER ->
                      /\ lreq' = [lreq EXCEPT !.st = "ok", !.ret = 0]
                      /\ UNCHANGED <<lop, file>>
    /\ UNCHANGED <<posixVars, ltask, lcall, helperVars, threadVars>>

\* The request fails with code e.  aio_error() will return e; the errno of
\* the awaiting thread is not touched.
LegacyFacilityFail(e) ==
    /\ ~crashed
    /\ lreq.st = "pending"
    /\ lreq' = [lreq EXCEPT !.st = "err", !.err = e]
    /\ UNCHANGED <<posixVars, file, crashed, uaf, lop, ltask, lcall, helperVars, threadVars>>

NextLegacy ==
    \/ \E size \in ReadSizes, offset \in Offsets : LegacyRead(size, offset)
    \/ \E data \in DataSet, offset \in Offsets : LegacyWrite(data, offset)
    \/ LegacyFlush
    \/ \E data \in DataSet : LegacySetBuffer(data)
    \/ LegacyCloseOp
    \/ LegacyResultCall
    \/ \E sub \in SubmitResults : LegacyAwaitStart(sub)
    \/ \E sub \in SubmitResults, cleared \in BOOLEAN : LegacyAwaitRetry(sub, cleared)
    \/ LegacyAwaitPoll
    \/ LegacyFacilityComplete
    \/ \E e \in FacilityErrors : LegacyFacilityFail(e)

\* ------------------------------------------------ AIOOperation (_aio.pyx)
legacyVars == <<lop, lreq, ltask, lcall>>

\* AIOOperation.__cinit__: __state is INIT; the attribute self.state is never
\* assigned and reads 0 (LIO_READ), so init_buffer(nbytes) runs for every kind
ThreadInit(opcode, offset, nbytes) ==
    [NoThreadOp EXCEPT !.built = TRUE, !.state = "INIT", !.opcode = opcode,
                       !.offset = offset, !.nbytes = nbytes,
                       !.buffer_size = nbytes, !.buf = Zeros(nbytes)]

\* buffer (setter): set_buffer() frees the old buffer, allocates
\* len(data) + 1 bytes and copies the data
ThreadBufferSet(op, data) ==
    IF op.opcode # "LIO_WRITE"
    THEN [err |-> "Buffer should be set only in IO_WRITE mode", op |-> op]
    ELSE IF op.state = "DONE" THEN [err |-> "Invalid state", op |-> op]
    ELSE [err |-> "",
          op |-> [op EXCEPT !.buffer_size = Len(data) + 1,
                            !.buf = Memcpy(Zeros(Len(data) + 1), data)]]

\* buffer (getter): buf[:self.buffer_size]
ThreadBufferGet(op) == SubSeq(op.buf, 1, op.buffer_size)

\* AIOFile.read / write / flush of _aio.pyx
ThreadFile_read(size, offset) ==
    ThreadInit("LIO_READ", offset, IF size = -1 THEN Len(file) ELSE size)

ThreadFile_write(data, offset) ==
    ThreadBufferSet(ThreadInit("LIO_WRITE", offset, Len(data)), data).op

ThreadFile_flush == ThreadInit("LIO_NOP", 0, 0)

\* handle_errno(): PermissionError for EAGAIN, SystemError for the others
HandleErrno(errno) ==
    CASE errno = "0"      -> ""
      [] errno = "EAGAIN" -> "PermissionError"
      [] OTHER            -> "SystemError"

ThreadRead(size, offset) ==
    /\ ~crashed
    /\ LegacyFree
    /\ top' = ThreadFile_read(size, offset)
    /\ UNCHANGED <<posixVars, legacyVars, file, crashed, uaf, treq, ttask, helperVars>>

ThreadWrite(data, offset) ==
    /\ ~crashed
    /\ LegacyFree
    /\ top' = ThreadFile_write(data, offset)
    /\ UNCHANGED <<posixVars, legacyVars, file, crashed, uaf, treq, ttask, helperVars>>

ThreadFlush ==
    /\ ~crashed
    /\ LegacyFree
    /\ top' = ThreadFile_flush
    /\ UNCHANGED <<posixVars, legacyVars, file, crashed, uaf, treq, ttask, helperVars>>

\* op.buffer = data.  The old buffer is freed whatever the facility is doing
\* with it.
ThreadSetBuffer(data) ==
    /\ ~crashed
    /\ top.built /\ ~top.freed
    /\ top' = ThreadBufferSet(top, data).op
    /\ treq' = [treq EXCEPT !.stale = @ \/ (treq.st = "pending" /\
                                             ThreadBufferSet(top, data).err = "")]
    /\ UNCHANGED <<posixVars, legacyVars, file, crashed, uaf, ttask, helperVars>>

\* await op (__iter__ up to its loop).  The facility answers sub; a call
\* that succeeds leaves errno as it was (stale), and handle_errno() raises on
\* whatever errno holds.
ThreadAwaitStart(sub, stale) ==
    LET errno == IF sub = "OK" THEN stale ELSE sub
    IN  /\ ~crashed
        /\ top.built /\ ~top.freed
        /\ ttask.pc \in {"idle", "finished"}
        /\ IF top.state = "DONE"
           THEN /\ ttask' = [ttask EXCEPT !.pc = "finished",
                       !.res = Raised("RuntimeError", "Operation already done")]
                /\ UNCHANGED <<top, treq>>
           ELSE IF top.state = "RUN"
           THEN /\ ttask' = [ttask EXCEPT !.pc = "finished",
                       !.res = Raised("RuntimeError", "Operation already in progress")]
                /\ UNCHANGED <<top, treq>>
           ELSE /\ top' = [top EXCEPT !.state = "RUN"]
                /\ treq' = IF sub = "OK"
                           THEN [treq EXCEPT !.st = "pending", !.kind = top.opcode]
                           ELSE [treq EXCEPT !.st = "rejected", !.err = sub]
                /\ ttask' = IF HandleErrno(errno) = ""
                            THEN [ttask EXCEPT !.pc = "wait", !.res = NoRes]
                            ELSE [ttask EXCEPT !.pc = "finished",
                                     !.res = Raised(HandleErrno(errno), errno)]
        /\ UNCHANGED <<posixVars, legacyVars, file, crashed, uaf, helperVars>>

\* The n bytes the facility takes from a buffer: aio_nbytes is not changed by
\* the setter, so a buffer set to shorter data is read past its end (g).
Overrun(buf, n, g) == [i \in 1..n |-> IF i <= Len(buf) THEN buf[i] ELSE g]

\* The facility carries out the request and raises the SIGEV_THREAD
\* notification.  The control block and its buffer are never freed by the
\* object (its destructor is spelt __delloc__), only by set_buffer().
ThreadFacilityComplete ==
    /\ ~crashed
    /\ treq.st = "pending"
    /\ IF treq.stale
       THEN /\ uaf' = TRUE
            /\ crashed' \in BOOLEAN
            /\ treq' = [treq EXCEPT !.st = "ok", !.ret = 0, !.notif = TRUE]
            /\ UNCHANGED <<top, file>>
       ELSE /\ UNCHANGED <<uaf, crashed>>
            /\ CASE treq.kind = "LIO_READ" ->
                      LET data == FileRead(file, top.offset, top.nbytes)
                      IN  /\ top' = [top EXCEPT !.buf = Memcpy(@, data)]
                          /\ treq' = [treq EXCEPT !.st = "ok", !.ret = Len(data),
                                                  !.notif = TRUE]
                          /\ file' = file
                 [] treq.kind = "LIO_WRITE" ->
                      \E n \in WriteCounts(top.nbytes), g \in Bytes :
                          /\ file' = FileWrite(file, top.offset, Overrun(top.buf, n, g))
                          /\ treq' = [treq EXCEPT !.st = "ok", !.ret = n,
                                                  !.notif = TRUE]
                          /\ top' = top
                 [] OTHER ->
                      /\ treq' = [treq EXCEPT !.st = "ok", !.ret = 0, !.notif = TRUE]
                      /\ UNCHANGED <<top, file>>
    /\ UNCHANGED <<posixVars, legacyVars, ttask, helperVars>>

\* The request fails with code e; the notification is raised all the same.
ThreadFacilityFail(e) ==
    /\ ~crashed
    /\ treq.st = "pending"
    /\ treq' = [treq EXCEPT !.st = "err", !.err = e, !.notif = TRUE]
    /\ UNCHANGED <<posixVars, legacyVars, file, crashed, uaf, top, ttask, helperVars>>

\* on_event(sv), on the facility's thread: *(int*)sv.sival_ptr = AIO_OP_DONE.
\* The pointer is into the operation object, wherever that object is now.
ThreadOnEvent ==
    /\ ~crashed
    /\ treq.notif
    /\ treq' = [treq EXCEPT !.notif = FALSE]
    /\ IF top.freed
       THEN /\ uaf' = TRUE
            /\ crashed' \in BOOLEAN
            /\ top' = top
       ELSE /\ top' = [top EXCEPT !.state = "DONE"]
            /\ UNCHANGED <<uaf, crashed>>
    /\ UNCHANGED <<posixVars, legacyVars, file, ttask, helperVars>>

\* The task is resumed and finds done(): buffer_size = aio_return(cb), then
\* buf[:buffer_size], past the end of a buffer that is shorter.  A failed
\* request gives -1, a size no buffer has.
ThreadResume ==
    /\ ~crashed
    /\ ttask.pc = "wait"
    /\ top.state = "DONE"
    /\ IF AioReturn(treq) < 0
       THEN /\ ttask' = [ttask EXCEPT !.pc = "finished",
                                      !.res = Raised("SystemError", treq.err)]
            /\ crashed' \in BOOLEAN
            /\ top' = top
       ELSE /\ top' = [top EXCEPT !.buffer_size = AioReturn(treq)]
            /\ \E g \in Bytes :
                   ttask' = [ttask EXCEPT !.pc = "finished",
                       !.res = Returned(Overrun(top.buf, AioReturn(treq), g))]
            /\ crashed' = crashed
    /\ UNCHANGED <<posixVars, legacyVars, file, uaf, treq, helperVars>>

\* The awaiting task is cancelled at its yield: the generator is closed, the
\* request is left with the facility.
ThreadCancel ==
    /\ ~crashed
    /\ ttask.pc = "wait"
    /\ ttask' = [ttask EXCEPT !.pc = "finished",
                              !.res = Raised("CancelledError", "")]
    /\ UNCHANGED <<posixVars, legacyVars, file, crashed, uaf, top, treq, helperVars>>

\* The last reference to the operation is dropped: the object's memory goes,
\* the control block and the buffer stay allocated.
ThreadDealloc ==
    /\ ~crashed
    /\ top.built /\ ~top.freed
    /\ ttask.pc # "wait"
    /\ top' = [top EXCEPT !.freed = TRUE]
    /\ UNCHANGED <<posixVars, legacyVars, file, crashed, uaf, treq, ttask, helperVars>>

NextThread ==
    \/ \E size \in ReadSizes, offset \in Offsets : ThreadRead(size, offset)
    \/ \E data \in DataSet, offset \in Offsets : ThreadWrite(data, offset)
    \/ ThreadFlush
    \/ \E data \in DataSet : ThreadSetBuffer(data)
    \/ \E sub \in SubmitResults, stale \in {"0", "EAGAIN"} : ThreadAwaitStart(sub, stale)
    \/ ThreadFacilityComplete
    \/ \E e \in FacilityErrors : ThreadFacilityFail(e)
    \/ ThreadOnEvent
    \/ ThreadResume
    \/ ThreadCancel
    \/ ThreadDealloc

OneOp == {1}
TwoTasks == {1, 2}

Next ==
    \/ \E o \in OneOp, size \in ReadSizes, offset \in Offsets : Read(o, size, offset)
    \/ \E o \in OneOp, data \in DataSet, offset \in Offsets : Write(o, data, offset)
    \/ \E o \in OneOp : Flush(o)
    \/ \E o \in OneOp, data \in DataSet : SetBuffer(o, data)
    \/ \E o \in OneOp : CloseOp(o)
    \/ \E o \in OneOp : Dealloc(o)
    \/ \E t \in TwoTasks : Cancel(t)
    \/ Engine(OneOp, TwoTasks, TwoTasks \X OneOp)
    \/ NextLegacy
    \/ NextThread

Spec == Init /\ [][Next]_vars


\* ------------------------------------------------- notified more than once
\* The facility's thread calls on_event again for a request it has already
\* notified, while the operation object is still alive.
Renotify(o) ==
    /\ ~crashed
    /\ SIGEV_TYPE = "SIGEV_THREAD"
    /\ ops[o].ref = "held"
    /\ req[o].st \in {"ok", "err", "canceled"}
    /\ ~events[o].notif
    /\ events[o].delivered \in 1..(MaxNotifs - 1)
    /\ events' = [events EXCEPT ![o].notif = TRUE]
    /\ UNCHANGED <<ops, args, tasks, semaphore, OP_MAP, req, file, SIGEV_TYPE,
                   crashed, uaf, lop, lreq, ltask, lcall, helperVars, threadVars>>

NextNotify ==
    \/ \E o \in OneOp, size \in ReadSizes, offset \in Offsets : Read(o, size, offset)
    \/ \E o \in OneOp, data \in DataSet, offset \in Offsets : Write(o, data, offset)
    \/ \E o \in OneOp : Flush(o)
    \/ \E o \in OneOp : CloseOp(o)
    \/ \E o \in OneOp : Dealloc(o)
    \/ \E t \in TwoTasks : Cancel(t)
    \/ Engine(OneOp, TwoTasks, TwoTasks \X OneOp)
    \/ \E o \in OneOp : Renotify(o)

SpecNotify == Init /\ [][NextNotify]_vars

\* -------------------------------------------------- one await, cancellable
\* One operation awaited by one task that may be cancelled at any yield.  The
\* holder does nothing else with the operation; the loop and the facility
\* keep taking their steps.
OneTask == {1}

EngineOne == Engine(OneOp, OneTask, {<<1, 1>>})

NextCancel ==
    \/ \E size \in ReadSizes, offset \in Offsets : Read(1, size, offset)
    \/ \E data \in DataSet, offset \in Offsets : Write(1, data, offset)
    \/ Flush(1)
    \/ Cancel(1)
    \/ EngineOne

SpecCancel == Init /\ [][NextCancel]_vars /\ WF_vars(EngineOne)

\* ------------------------------------------------------ two awaits, fairly
\* Two flushes awaited by two tasks.  The loop resumes every task that is
\* ready, round after round, and the facility works on every request it
\* queued: a task whose resumption is possible again and again is resumed,
\* and a facility step that stays possible is taken.
PairOps == {1, 2}

TaskStep(t) ==
    AcquireResume(t) \/ ReacquireResume(t) \/ WaitResume(t) \/ PollResume(t)

FacilityStep(o) ==
    \/ FacilityComplete(o)
    \/ \E e \in FacilityErrors : FacilityFail(o, e)
    \/ on_event(o)
    \/ EventSet(o)

NextRetry ==
    \/ \E o \in PairOps : Flush(o)
    \/ Engine(PairOps, TwoTasks, {<<1, 1>>, <<2, 2>>})

SpecRetry ==
    /\ Init
    /\ [][NextRetry]_vars
    /\ \A t \in TwoTasks : SF_vars(TaskStep(t))
    /\ \A o \in PairOps : WF_vars(FacilityStep(o))

\* ---------------------------------------------------------- write, then read
\* The task that awaited operation w is through with it.
Awaited(w) == \E t \in Tasks : tasks[t].op = w /\ tasks[t].pc = "finished"

\* afp.read(len(d), o) after `await afp.write(d, o)` has ended
ReadBack(o, w) ==
    /\ Built(w)
    /\ Awaited(w)
    /\ Read(o, args[w].nbytes, args[w].offset)

RoundTripOps == {1, 2}

NextRoundTrip ==
    \/ \E data \in DataSet, offset \in Offsets : Write(1, data, offset)
    \/ ReadBack(2, 1)
    \/ \E t \in TwoTasks : Cancel(t)
    \/ Engine(RoundTripOps, TwoTasks, {<<1, 1>>, <<2, 2>>})

SpecRoundTrip == Init /\ [][NextRoundTrip]_vars

\* ------------------------------------------------------- concurrent writes
WideOffsets == 0..(MaxOff + MaxLen)

Disjoint(o1, n1, o2, n2) == o1 + n1 <= o2 \/ o2 + n2 <= o1

\* afp.write(data, offset) on a range disjoint from the ranges of the writes
\* built before
DisjointWrite(o, data, offset) ==
    /\ \A p \in Ops : (p < o /\ Built(p)) =>
           Disjoint(args[p].offset, args[p].nbytes, offset, Len(data))
    /\ Write(o, data, offset)

Writers == {1, 2}
Lo == Min(args[1].offset, args[2].offset)
Hi == Max(args[1].offset + args[1].nbytes, args[2].offset + args[2].nbytes)

\* afp.read over the union of the written ranges, once every write was awaited
ReadUnion(o) ==
    /\ \A w \in Writers : Built(w) /\ Awaited(w)
    /\ Read(o, Hi - Lo, Lo)

ConcurrentOps == {1, 2, 3}
ThreeTasks == {1, 2, 3}

NextConcurrent ==
    \/ \E o \in Writers, data \in DataSet \ {<<>>}, offset \in WideOffsets :
           DisjointWrite(o, data, offset)
    \/ ReadUnion(3)
    \/ Engine(ConcurrentOps, ThreeTasks, {<<1, 1>>, <<2, 2>>, <<3, 3>>})

SpecConcurrent == Init /\ [][NextConcurrent]_vars

\* ------------------------------------------------------------------ helpers
\* Writer, Reader and LineReader drive the file through awaited operations.
\* One caller uses a helper at a time, so an awaited operation is followed
\* from its construction to the value its await returns.
engineVars ==
    <<ops, args, tasks, semaphore, OP_MAP, req, events, SIGEV_TYPE, crashed,
      uaf, lop, lreq, ltask, lcall>>

\* The request of an operation the facility carried out, n bytes transferred.
DoneReq(n) == [NoReq EXCEPT !.st = "ok", !.ret = n, !.accepted = 1]

\* What `await op` returns once the facility wrote the first n bytes of the
\* operation's buffer: the operation completed, and the bytes of its buffer.
AwaitedWrite(op, n) == CompletedResult(op, DoneReq(n)).val

\* What `await afp.read(size, offset)` returns on the file f.
AwaitedRead(f, size, offset) ==
    LET op == Cinit("LIO_READ", Fd, offset, size)
        data == FileRead(f, op.offset, op.nbytes)
    IN  CompletedResult([op EXCEPT !.buf = Memcpy(@, data)],
                        DoneReq(Len(data))).val

\* ------------------------------------------------------------------- Writer
\* Writer(afp, offset)
WriterNew(offset) ==
    /\ ~writer.built
    /\ writer' = [NoWriter EXCEPT !.built = TRUE, !.start = offset,
                                  !.cursor = offset]
    /\ UNCHANGED <<threadVars, engineVars, file, reader, linereader>>

\* writer(data), up to the await: a write operation at the cursor
WriterCall(data) ==
    /\ writer.built
    /\ ~writer.busy
    /\ writer.calls < MaxWrites
    /\ writer' = [writer EXCEPT !.busy = TRUE, !.calls = @ + 1,
                                !.op = AIOFile_write(data, writer.cursor)]
    /\ UNCHANGED <<threadVars, engineVars, file, reader, linereader>>

\* The operation completed having written n bytes: the cursor moves by the
\* bytes written.  passed and written count the bytes the completed writes
\* were given and the bytes they wrote.
WriterComplete ==
    /\ writer.busy
    /\ \E n \in WriteCounts(writer.op.nbytes) :
          /\ file' = FileWrite(file, writer.op.offset,
                               SubSeq(writer.op.buf, 1, n))
          /\ writer' = [writer EXCEPT
                            !.busy = FALSE,
                            !.cursor = @ + Len(AwaitedWrite(writer.op, n)),
                            !.passed = @ + writer.op.nbytes,
                            !.written = @ + n]
    /\ UNCHANGED <<threadVars, engineVars, reader, linereader>>

\* The operation failed: the error reaches the caller, the cursor stays.
WriterFailed ==
    /\ writer.busy
    /\ writer' = [writer EXCEPT !.busy = FALSE]
    /\ UNCHANGED <<threadVars, engineVars, file, reader, linereader>>

NextWriter ==
    \/ \E offset \in Offsets : WriterNew(offset)
    \/ \E data \in DataSet : WriterCall(data)
    \/ WriterComplete
    \/ WriterFailed

SpecWriter == Init /\ [][NextWriter]_vars

\* ------------------------------------------------------------------- Reader
ChunkSizes == 1..MaxChunk

\* Reader(afp, chunk_size, offset)
ReaderNew(chunk_size, offset) ==
    /\ ~reader.built
    /\ ~writer.busy
    /\ reader' = [NoReader EXCEPT !.built = TRUE, !.start = offset,
                                  !.offset = offset, !.chunk_size = chunk_size]
    /\ UNCHANGED <<threadVars, engineVars, file, writer, linereader>>

\* One step of a Reader r on the file f: nothing once exhausted; else a read
\* of chunk_size at the offset, the offset moved by the bytes returned, a
\* short or empty read exhausting the reader; an empty chunk is not yielded.
\* yields says whether chunk is handed to the caller.
ReadChunk(r, f) ==
    LET chunk == AwaitedRead(f, r.chunk_size, r.offset)
    IN  IF r.exhausted
        THEN [r |-> r, yields |-> FALSE, chunk |-> <<>>]
        ELSE [r |-> [r EXCEPT !.offset = @ + Len(chunk),
                              !.exhausted = Len(chunk) < r.chunk_size],
              yields |-> Len(chunk) > 0,
              chunk |-> chunk]

\* async for chunk in reader: one iteration step.  chunks keeps the chunks
\* yielded, ends counts the steps that signalled the end of the sequence.
ReaderStep ==
    /\ reader.built
    /\ ~linereader.built
    /\ reader.ends < MaxEnds
    /\ LET s == ReadChunk(reader, file)
       IN  reader' = IF s.yields
                     THEN [s.r EXCEPT !.chunks = Append(@, s.chunk)]
                     ELSE [s.r EXCEPT !.ends = @ + 1]
    /\ UNCHANGED <<threadVars, engineVars, file, writer, linereader>>

NextReader ==
    \/ ~reader.built /\ NextWriter
    \/ \E c \in ChunkSizes, offset \in Offsets : ReaderNew(c, offset)
    \/ ReaderStep

SpecReader == Init /\ [][NextReader]_vars

\* --------------------------------------------------------------- LineReader
\* Separators: one byte, two bytes, two equal bytes.
Separators == {<<1>>, <<1, 2>>, <<1, 1>>}

\* Position of the first occurrence of sep in s, 0 if there is none.
Find(s, sep) ==
    LET hits == {p \in 1..(Len(s) - Len(sep) + 1) :
                    SubSeq(s, p, p + Len(sep) - 1) = sep}
    IN  IF hits = {} THEN 0 ELSE CHOOSE p \in hits : \A q \in hits : p <= q

\* LineReader(afp, separator, chunk_size, offset): a Reader and an empty carry
LineReaderNew(sep, chunk_size, offset) ==
    /\ ~reader.built
    /\ ~writer.busy
    /\ reader' = [NoReader EXCEPT !.built = TRUE, !.start = offset,
                                  !.offset = offset, !.chunk_size = chunk_size]
    /\ linereader' = [NoLineReader EXCEPT !.built = TRUE, !.separator = sep]
    /\ UNCHANGED <<threadVars, engineVars, file, writer>>

\* readline() of the LineReader lr over the Reader r on the file f: the
\* first separator in the carry ends the line returned, the rest stays in
\* the carry; without one the next chunk is added to the carry; when the
\* Reader has no more chunks the carry is returned, once; after that the end
\* is signalled.  returns says whether line is handed to the caller.
RECURSIVE Readline(_, _, _)
Readline(lr, r, f) ==
    LET p == Find(lr.carry, lr.separator)
        e == p + Len(lr.separator) - 1
        s == ReadChunk(r, f)
    IN  IF lr.exhausted
        THEN [lr |-> lr, r |-> r, returns |-> FALSE, line |-> <<>>]
        ELSE IF p > 0
        THEN [lr |-> [lr EXCEPT !.carry = SubSeq(@, e + 1, Len(@))],
              r |-> r, returns |-> TRUE, line |-> SubSeq(lr.carry, 1, e)]
        ELSE IF s.yields
        THEN Readline([lr EXCEPT !.carry = @ \o s.chunk],
                      [s.r EXCEPT !.chunks = Append(@, s.chunk)], f)
        ELSE [lr |-> [lr EXCEPT !.carry = <<>>, !.exhausted = TRUE],
              r |-> s.r, returns |-> TRUE, line |-> lr.carry]

\* One readline() call, or one step of `async for line in LineReader(afp)`.
\* lines keeps the lines returned, ends counts the calls that signalled the
\* end of the sequence.
ReadlineStep ==
    /\ linereader.built
    /\ linereader.ends < MaxEnds
    /\ LET s == Readline(linereader, reader, file)
       IN  /\ reader' = s.r
           /\ linereader' = IF s.returns
                             THEN [s.lr EXCEPT !.lines = Append(@, s.line)]
                             ELSE [s.lr EXCEPT !.ends = @ + 1]
    /\ UNCHANGED <<threadVars, engineVars, file, writer>>

NextLines ==
    \/ ~reader.built /\ NextWriter
    \/ \E sep \in Separators, c \in ChunkSizes, offset \in Offsets :
           LineReaderNew(sep, c, offset)
    \/ ReadlineStep

SpecLines == Init /\ [][NextLines]_vars

\* ------------------------------------------------------------------ claims
\* Order of the states of an operation
Rank(st) == CASE st = "INIT" -> 0 [] st = "RUN" -> 1 [] st = "DONE" -> 2
              [] st = "CLOSED" -> 3 [] OTHER -> 0

AlreadyDone == Raised("RuntimeError", "Operation already done")
AlreadyRunning == Raised("RuntimeError", "Operation already in progress")

\* The await of operation o returned bytes.
ReturnedBy(o) == {t \in Tasks : tasks[t].op = o /\ tasks[t].res.kind = "ok"}

\* The write w was awaited to completion: all of its bytes were transferred.
WrittenFully(w) ==
    \E t \in ReturnedBy(w) : Len(tasks[t].res.val) = Len(args[w].data)

\* C1: after a Write of d at offset o was awaited to completion, a Read of
\* len(d) bytes at o returns exactly d.
C1_RoundTrip ==
    \A t \in ReturnedBy(2) :
        (args[1].opcode = "LIO_WRITE" /\ WrittenFully(1))
        => tasks[t].res.val = args[1].data

C1_Witness ==
    \E t \in ReturnedBy(2) :
        /\ WrittenFully(1)
        /\ args[1].offset = 1
        /\ tasks[t].res.val = <<1, 2>>

\* C2: after concurrent Writes on pairwise-disjoint ranges have all
\* completed, a Read covering the union returns each range's written bytes.
C2_DisjointWrites ==
    \A t \in ReturnedBy(3) :
        (\A w \in Writers : WrittenFully(w))
        => \A w \in Writers :
              /\ Len(tasks[t].res.val) >= args[w].offset - Lo + args[w].nbytes
              /\ SubSeq(tasks[t].res.val, args[w].offset - Lo + 1,
                        args[w].offset - Lo + args[w].nbytes) = args[w].data

\* two disjoint two-byte writes, at 2 and at 0, read back as four bytes
C2_Witness ==
    \E t \in ReturnedBy(3) :
        /\ \A w \in Writers : WrittenFully(w)
        /\ args[1].offset = 2 /\ args[1].data = <<2, 1>>
        /\ args[2].offset = 0 /\ args[2].data = <<1, 2>>
        /\ tasks[t].res.val = <<1, 2, 2, 1>>

\* C3: an operation's offset and file descriptor are those the caller passed
\* at construction, and no step (buffer set, await, completion, error,
\* cancellation) changes them while the control block exists.
C3_OffsetFixed ==
    /\ [](\A o \in Ops : (Built(o) /\ ~ops[o].null) =>
              /\ ops[o].offset = args[o].offset
              /\ ops[o].fildes = Fd)
    /\ [][\A o \in Ops : (Built(o) /\ ~ops[o].null /\ ~ops'[o].null) =>
              /\ ops'[o].offset = ops[o].offset
              /\ ops'[o].fildes = ops[o].fildes]_vars

C3_Witness ==
    \E t \in Tasks :
        /\ tasks[t].res.kind = "ok"
        /\ ops[tasks[t].op].st = "DONE"
        /\ ops[tasks[t].op].offset = 1
        /\ ops[tasks[t].op].opcode = "LIO_WRITE"

\* C4: the state of an operation only moves forward in the order Init,
\* Running, Done, Closed, and Closed is terminal.
C4_StateMonotonic ==
    [][\A o \in Ops : Built(o) => Rank(ops'[o].st) >= Rank(ops[o].st)]_vars

\* C5: an await that finds the operation Running ends with "already in
\* progress", one that finds it Done with "already done"; neither submits
\* anything nor changes the operation; the facility accepts an operation at
\* most once, whichever implementation built it.
C5_SubmitOnce ==
    /\ [](\A o \in Ops : req[o].accepted <= 1)
    /\ [](lreq.accepted <= 1)
    /\ [][\A t \in Tasks :
            (/\ tasks[t].pc = "acquire"
             /\ tasks'[t].pc # "acquire"
             /\ tasks'[t].res.kind # "CancelledError"
             /\ ops[tasks[t].op].st \in {"RUN", "DONE"})
            => /\ tasks'[t].pc = "finished"
               /\ tasks'[t].res = IF ops[tasks[t].op].st = "RUN"
                                  THEN AlreadyRunning ELSE AlreadyDone
               /\ ops' = ops
               /\ req' = req]_vars

\* C6: a close() after the first changes nothing and raises no error, and
\* the native storage of an operation is freed at most once.
C6_CloseIdempotent ==
    /\ \A o \in Ops : ops[o].frees <= 1
    /\ lop.frees <= 1
    /\ lcall.name = "close" => lcall.err = ""

\* C7: an await that returns bytes returns exactly the first n bytes of the
\* operation's buffer, n being the count the facility reported, with
\* 0 <= n <= the length the buffer was allocated for.
C7_ValidRegion ==
    [][\A t \in Tasks :
          (tasks[t].pc # "finished" /\ tasks'[t].pc = "finished"
           /\ tasks'[t].res.kind = "ok")
          => LET o == tasks[t].op
                 n == req[o].ret
             IN  /\ 0 <= n
                 /\ n <= Len(ops[o].buf) - 1
                 /\ ops'[o].size = n
                 /\ Len(tasks'[t].res.val) = n
                 /\ tasks'[t].res.val = SubSeq(ops'[o].buf, 1, n)]_vars

\* a Read at end of file returned fewer bytes than requested
C7_Witness ==
    \E t \in Tasks :
        /\ tasks[t].res.kind = "ok"
        /\ ops[tasks[t].op].opcode = "LIO_READ"
        /\ ops[tasks[t].op].st = "DONE"
        /\ Len(tasks[t].res.val) = 1
        /\ ops[tasks[t].op].nbytes = 2

\* The operation of aio.pyx was not started, or was submitted and is pending.
LegacyNotDone == lop.built /\ (~lop.is_running \/ lreq.st = "pending")

C9_ErrorEndsDone ==
    \A t \in Tasks :
        (tasks[t].pc = "finished" /\ tasks[t].res.kind = "SystemError"
         /\ req[tasks[t].op].st = "err")
        => /\ tasks[t].res.code = req[tasks[t].op].err
           /\ ops[tasks[t].op].st \in {"DONE", "CLOSED"}

\* C10: a buffer set that is longer than the operation's length, or that the
\* operation rejects, ends with an error and leaves the operation unchanged.
C10_TooLongRejected ==
    /\ [][\A o \in Ops, data \in DataSet :
            (SetBuffer(o, data) /\ ~ops[o].null /\ BufferSet(ops[o], data).err # "")
            => ops' = ops]_vars
    /\ [][\A data \in DataSet :
            (LegacySetBuffer(data) /\ Len(data) > lop.buffer_size)
            => (lcall'.err # "" /\ lop' = lop)]_vars

\* C11: a submission the facility turns away for lack of resources (EAGAIN)
\* is not surfaced: no await of that operation ends with a SystemError, and
\* the polling implementation never ends an await with LimitationError.
C11_LimitAbsorbed ==
    /\ \A t \in Tasks :
          (tasks[t].op # 0 /\ req[tasks[t].op].rejected = "EAGAIN")
          => tasks[t].res.kind # "SystemError"
    /\ ltask.res.kind # "LimitationError"

\* C12: a submission the facility turns away for another reason than lack of
\* resources is not retried (no task waits to submit again) and the await
\* ends with a SystemError carrying the facility's code.
C12_HardErrorSurfaced ==
    \A t \in Tasks :
        (tasks[t].op # 0 /\ req[tasks[t].op].rejected \notin {"", "EAGAIN"})
        => /\ tasks[t].pc # "reacquire"
           /\ \E u \in Tasks :
                 /\ tasks[u].op = tasks[t].op
                 /\ tasks[u].res = Raised("SystemError", req[tasks[t].op].rejected)

\* A task that waits for admission while no other await is under way.
WaitsAlone(t) ==
    /\ tasks[t].pc \in {"acquire", "reacquire"}
    /\ \A u \in Tasks \ {t} : ~Active(u)

\* C13: what an await delivers, and whether it ends, does not depend on how
\* the await of another operation went.  An operation awaited on its own is
\* always admitted by the semaphore, so whatever the other awaits did before
\* they ended, a task left waiting for admission alone can be admitted.
C13_Isolation == \A t \in Tasks : WaitsAlone(t) => CanAcquire(semaphore)

\* A task is past the submission of its operation and the facility is through
\* with the request: it carried it out, failed it or cancelled it.
Answered(t) ==
    /\ tasks[t].op # 0
    /\ tasks[t].pc \in {"wait", "poll"}
    /\ ~ops[tasks[t].op].null
    /\ req[tasks[t].op].st \in {"ok", "err", "canceled"}

\* C14: at every point where an await has the facility's final answer, the
\* signal-driven branch and the polling branch agree: both end the await,
\* with the same bytes or the same error, and both leave the operation Done.
C14_StrategiesAgree ==
    \A t \in Tasks :
        Answered(t) =>
            LET o == tasks[t].op
            IN  /\ SignalBranch(ops[o], req[o]) = PollBranch(ops[o], req[o])
                /\ SignalBranch(ops[o], req[o]).op.st = "DONE"

\* C15: a task cancelled while its operation is Running makes one
\* aio_cancel() call for it and ends with CancelledError; a task cancelled
\* while the operation is still Init (it waits for admission) ends with
\* CancelledError and nothing is asked of the facility.
C15_CancelPropagates ==
    [][\A t \in Tasks :
          (Active(t) /\ tasks'[t].res.kind = "CancelledError")
          => LET o == tasks[t].op
             IN  /\ tasks'[t] = [op |-> o, pc |-> "finished",
                                 res |-> Raised("CancelledError", "")]
                 /\ ops[o].st = "RUN" => req'[o].cancels = req[o].cancels + 1
                 /\ ops[o].st = "INIT" => req'[o] = req[o]]_vars

\* a task was cancelled in flight and the facility took the cancel
C15_Witness ==
    \E t \in Tasks :
        /\ tasks[t].res.kind = "CancelledError"
        /\ req[tasks[t].op].cancels = 1
        /\ req[tasks[t].op].st = "canceled"
        /\ ops[tasks[t].op].st = "RUN"

\* Operation o was cancelled in flight and no task awaits it any more.
Cancelled(o) ==
    /\ req[o].cancels > 0
    /\ \A t \in Tasks : tasks[t].op = o => ~Active(t)

\* C16: once an in-flight operation was cancelled, its storage is freed at
\* most once, no completion callback acts on it (on_event hands no event.set
\* to the loop for it), and the facility does not work on storage already
\* freed.
C16_CancelledReleased ==
    \A o \in Ops :
        Cancelled(o) =>
            /\ ops[o].frees <= 1
            /\ ~events[o].handoff
            /\ ops[o].null => ~uaf

\* The awaiting task of o was cancelled in flight and the facility did not
\* cancel the request.
CancelNotTaken(o) == Cancelled(o) /\ req[o].st # "canceled"

\* C17: an operation whose task was cancelled in flight, the facility not
\* taking the cancel, does not stay Running: the engine marks it Closed and
\* frees its storage.
C17_CancelledCloses ==
    \A o \in OneOp :
        [](CancelNotTaken(o) => <>(ops[o].st = "CLOSED" /\ ops[o].frees = 1))

\* C18: at every yield the number of admitted operations is at most the
\* ceiling of the limiter.
C18_WithinCeiling == semaphore.value <= semaphore.max_value

\* Task t leaves acquire() in this step: it was suspended in acquire() and
\* moved on without being cancelled.
Admitted(t) ==
    /\ tasks[t].pc \in {"acquire", "reacquire"}
    /\ tasks'[t] # tasks[t]
    /\ tasks'[t].res.kind # "CancelledError"

\* C19: acquire() admits a task only while the count is below the ceiling,
\* the ceiling left by a ratchet included; the test and the increment are one
\* step, so one step admits one task and takes exactly one slot for it.
C19_AdmitsBelowCeiling ==
    [][\A t \in Tasks :
          Admitted(t) =>
              /\ semaphore.value < semaphore.max_value
              /\ \A u \in Tasks \ {t} : tasks'[u] = tasks[u]
              /\ tasks'[t].pc \in {"wait", "poll"}
                     => semaphore' = [semaphore EXCEPT !.value = @ + 1]]_vars

\* A task waits in acquire() at a full limiter while another holds a slot.
C19_Witness ==
    \E t, u \in Tasks :
        /\ tasks[t].pc \in {"wait", "poll"}
        /\ tasks[u].pc \in {"acquire", "reacquire"}
        /\ semaphore.value >= semaphore.max_value

\* Task t is suspended in acquire().
Waiting(t) == tasks[t].pc \in {"acquire", "reacquire"}

\* C20: under fair scheduling no task waits for admission for ever: again and
\* again a waiting task finds the limiter below its ceiling.
C20_AdmittedInTheEnd ==
    \A t \in TwoTasks : []<>(~Waiting(t) \/ CanAcquire(semaphore))

\* C21: the cursor of a Writer is its initial offset plus the bytes actually
\* written so far; a write is issued at the cursor; the cursor moves only on
\* the step that completes the write, and never backwards.
C21_CursorTracksWritten ==
    [][/\ writer.built => writer.cursor = writer.start + writer.written
       /\ writer.busy => writer.op.offset = writer.cursor
       /\ writer.built => writer'.cursor >= writer.cursor
       /\ (writer.built /\ writer'.cursor # writer.cursor)
              => /\ writer.busy /\ ~writer'.busy
                 /\ writer'.cursor - writer.cursor
                        = writer'.written - writer.written]_vars

\* After a short write and a later write the cursor stands after the bytes
\* written, before the bytes passed.
C21_Witness ==
    /\ writer.built /\ ~writer.busy
    /\ writer.calls >= 2
    /\ writer.written > 0
    /\ writer.written < writer.passed
    /\ writer.cursor = writer.start + writer.written

RECURSIVE Concat(_)
Concat(ss) == IF ss = <<>> THEN <<>> ELSE Head(ss) \o Concat(Tail(ss))

\* The bytes of f from offset off on.
Rest(f, off) == IF off >= Len(f) THEN <<>> ELSE SubSeq(f, off + 1, Len(f))

\* C22: the chunks of a Reader, in order, are the bytes of the file between
\* its first offset and its present offset, which is the first offset plus
\* the bytes returned; every chunk but the last has chunk_size bytes, the
\* last has at least one; at the end of the sequence they are the whole file.
C22_ChunksAreTheFile ==
    reader.built =>
        /\ reader.offset = reader.start + Len(Concat(reader.chunks))
        /\ Concat(reader.chunks)
              = FileRead(file, reader.start, Len(Concat(reader.chunks)))
        /\ \A i \in 1..Len(reader.chunks) :
              /\ Len(reader.chunks[i]) \in 1..reader.chunk_size
              /\ i < Len(reader.chunks)
                     => Len(reader.chunks[i]) = reader.chunk_size
        /\ reader.ends > 0
              => Concat(reader.chunks) = Rest(file, reader.start)

\* A file read from offset 0 to its end in full chunks and a shorter last one.
C22_Witness ==
    /\ reader.built /\ reader.start = 0 /\ reader.ends > 0
    /\ Len(reader.chunks) >= 2
    /\ reader.chunk_size >= 2
    /\ Len(reader.chunks[Len(reader.chunks)]) < reader.chunk_size
    /\ Concat(reader.chunks) = file

\* C23: a read that returns fewer bytes than chunk_size exhausts the Reader;
\* an exhausted Reader stays exhausted and yields nothing more; the sequence
\* ends only on an exhausted Reader; no empty chunk is yielded.
C23_ExhaustedForGood ==
    [][reader.built =>
          /\ reader.exhausted
                => /\ reader'.exhausted
                   /\ reader'.chunks = reader.chunks
                   /\ reader'.offset = reader.offset
          /\ (/\ ~reader.exhausted
              /\ reader' # reader
              /\ Len(FileRead(file, reader.offset, reader.chunk_size))
                     < reader.chunk_size)
                => reader'.exhausted
          /\ reader'.ends > reader.ends => reader'.exhausted
          /\ \A i \in 1..Len(reader'.chunks) : reader'.chunks[i] # <<>>]_vars

\* An exhausted Reader was iterated again and again after a short last chunk.
C23_Witness ==
    /\ reader.built /\ reader.exhausted
    /\ reader.ends = MaxEnds
    /\ reader.chunks # <<>>
    /\ Len(reader.chunks[Len(reader.chunks)]) < reader.chunk_size

\* s ends with sep.
EndsWith(s, sep) ==
    Len(s) >= Len(sep) /\ SubSeq(s, Len(s) - Len(sep) + 1, Len(s)) = sep

\* The bytes the Reader under the LineReader has read so far.
Consumed == FileRead(file, reader.start, reader.offset - reader.start)

\* C24: the lines a LineReader returned, in order, followed by its carry, are
\* the bytes read so far, and at the end of the sequence the lines are the
\* whole content; every line before the last ends with the separator.
C24_LinesAreTheContent ==
    linereader.built =>
        /\ Concat(linereader.lines) \o linereader.carry = Consumed
        /\ linereader.exhausted
              => Concat(linereader.lines) = Rest(file, reader.start)
        /\ \A i \in 1..Len(linereader.lines) :
              (i < Len(linereader.lines) \/ ~linereader.exhausted)
                  => EndsWith(linereader.lines[i], linereader.separator)

\* A content of several lines read to its end in chunks shorter than it.
C24_Witness ==
    /\ linereader.built /\ linereader.exhausted
    /\ Len(linereader.lines) >= 3
    /\ Len(reader.chunks) >= 2
    /\ Len(linereader.separator) = 2
    /\ Concat(linereader.lines) = file

\* The lines of s: each ends with the first separator found after the line
\* before it; the last is what is left, without a separator.
RECURSIVE Split(_, _)
Split(s, sep) ==
    LET p == Find(s, sep)
        e == p + Len(sep) - 1
    IN  IF p = 0 THEN <<s>>
        ELSE <<SubSeq(s, 1, e)>> \o Split(SubSeq(s, e + 1, Len(s)), sep)

\* C25: the lines returned do not depend on the chunks: with the lines still
\* in the carry they are the lines of the bytes read so far, and at the end
\* of the sequence the lines of the content, whatever the chunk size.
C25_LinesWhateverTheChunks ==
    linereader.built =>
        IF linereader.exhausted
        THEN linereader.lines = Split(Rest(file, reader.start), linereader.separator)
        ELSE linereader.lines \o Split(linereader.carry, linereader.separator)
                 = Split(Consumed, linereader.separator)

\* A two-byte separator whose bytes came in two chunks ended a line.
C25_Witness ==
    /\ linereader.built /\ linereader.exhausted
    /\ Len(linereader.separator) = 2
    /\ \E k \in 1..(Len(reader.chunks) - 1), n \in 1..Len(linereader.lines) :
          LET b == Len(Concat(SubSeq(reader.chunks, 1, k)))
              c == reader.chunks[k]
          IN  /\ c[Len(c)] = linereader.separator[1]
              /\ reader.chunks[k + 1][1] = linereader.separator[2]
              /\ Len(Concat(SubSeq(linereader.lines, 1, n))) = b + 1
              /\ EndsWith(linereader.lines[n], linereader.separator)

\* The content the LineReader reads.
Content == Rest(file, reader.start)

\* The lines are those of a content without a separator at its end: every
\* line but the last ends with the separator, the last is the rest.
TailLess(lines, content, sep) ==
    /\ lines # <<>>
    /\ Concat(lines) = content
    /\ lines[Len(lines)] = Split(content, sep)[Len(Split(content, sep))]
    /\ Find(lines[Len(lines)], sep) = 0
    /\ \A i \in 1..(Len(lines) - 1) : EndsWith(lines[i], sep)

\* C26: a content that does not end with the separator gives its last,
\* partial line once, after the lines that end with the separator; every
\* readline after that signals the end and returns no line.
C26_TailLessOnce ==
    [][linereader.built =>
          /\ (linereader'.exhausted
                  /\ ~EndsWith(Content, linereader.separator))
                => TailLess(linereader'.lines, Content, linereader.separator)
          /\ linereader.exhausted
                => /\ linereader'.exhausted
                   /\ linereader'.lines = linereader.lines
                   /\ linereader'.ends = linereader.ends + 1]_vars

\* Lines ending with the separator, then a partial line, then the end twice.
C26_Witness ==
    /\ linereader.built /\ linereader.exhausted
    /\ linereader.ends = MaxEnds
    /\ Len(linereader.lines) >= 3
    /\ ~EndsWith(Content, linereader.separator)
    /\ linereader.lines[Len(linereader.lines)] # <<>>

\* C27: the ceiling of the limiter never becomes larger than it was.
C27_CeilingOnlyDown ==
    [][semaphore'.max_value <= semaphore.max_value]_vars

\* C28: a ratchet leaves the ceiling at the number of slots held when the
\* submission was rejected, the rejected operation's included, minus one.
\* The rejected task takes its slot in the same step, so that number is the
\* count before the step plus one.
C28_CeilingIsThresholdLessOne ==
    [][semaphore'.max_value # semaphore.max_value
          => semaphore'.max_value = (semaphore.value + 1) - 1]_vars

\* C29: the ceiling of the limiter is at least 1 in every state.
C29_CeilingAtLeastOne == semaphore.max_value >= 1

\* Task t, waiting for the Event of operation o, goes on in this step
\* without having been cancelled.
Resumed(t, o) ==
    /\ tasks[t].op = o
    /\ tasks[t].pc = "wait"
    /\ tasks'[t].pc # "wait"
    /\ tasks'[t].res.kind # "CancelledError"

\* C30: a notification hands the operation over to the loop only by taking
\* its entry out of OP_MAP; an operation whose entry is gone never gets one
\* back, and further notifications for it hand nothing over; a waiting task
\* goes on only once the Event was set, and one task at most waits for it.
C30_NotifiedOnce ==
    [][\A o \in OneOp :
          /\ (events'[o].handoff /\ ~events[o].handoff)
                => (o \in OP_MAP /\ o \notin OP_MAP')
          /\ (Built(o) /\ o \notin OP_MAP)
                => /\ o \notin OP_MAP'
                   /\ events'[o].handoff => events[o].handoff
                   /\ events'[o].event => (events[o].event \/ events[o].handoff)
          /\ \A t \in Tasks : Resumed(t, o) => events[o].event
          /\ Cardinality({t \in Tasks : tasks[t].op = o /\ tasks[t].pc = "wait"}) <= 1
      ]_vars

\* The task was resumed once and returned; a second notification for its
\* operation was delivered after that and handed nothing over.
C30_Witness ==
    \E t \in Tasks :
        /\ tasks[t].op = 1
        /\ tasks[t].res.kind = "ok"
        /\ events[1].delivered = 2
        /\ ~events[1].handoff
        /\ events[1].event
        /\ 1 \notin OP_MAP

\* C31: the completion callback never writes operation state.  A step in
\* which an operation goes from running to done is a step of a task awaiting
\* it, and the callback's step (the hand-off being queued) leaves every
\* operation as it was.
C31_DoneByAwaitingTask ==
    [][/\ \A o \in Ops :
            /\ (ops[o].st = "RUN" /\ ops'[o].st = "DONE") =>
                   \E t \in Tasks : tasks[t].op = o /\ tasks'[t] # tasks[t]
            /\ (~events[o].handoff /\ events'[o].handoff) => ops' = ops
       /\ (top.state = "RUN" /\ top'.state = "DONE") => ttask' # ttask
       /\ (treq.notif /\ ~treq'.notif) => top' = top]_vars

\* C32: polling completion.  A task parked at the yield of a polling loop is
\* kept there only while the facility reports the request as pending: once
\* aio_error() gives anything else, the next status check ends the await
\* with the result or the error.
C32_PollingEnds ==
    /\ \A t \in Tasks :
           (tasks[t].pc = "poll" /\ ~ops[tasks[t].op].null /\
            AioError(req[tasks[t].op]) # "EINPROGRESS") =>
               PollBranch(ops[tasks[t].op], req[tasks[t].op]).ends
    /\ (ltask.pc = "poll" /\ AioError(lreq) # "EINPROGRESS") =>
           ~(LegacyPoll(lop, lreq).err = "" /\ LegacyPoll(lop, lreq).val)

\* C33: a buffer is never freed under the facility.  No step releases the
\* buffer of a running operation whose request the facility still holds
\* (accepted, neither completed nor cancelled).
C33_NoFreeUnderFacility ==
    [][\A o \in Ops :
           (ops[o].st = "RUN" /\ ~ops[o].null /\ ops'[o].null) =>
               req[o].st # "pending"]_vars

\* The awaits that hold a slot: admitted by acquire(), not yet through the
\* release() of their finally.
Holding == {t \in Tasks : tasks[t].pc \in {"wait", "poll"}}

\* C34: slot accounting is exact.  In every state the semaphore's value is
\* the number of awaits that were admitted and have not released, whatever
\* the interleaving of admissions, rejections, cancellations and failed
\* Running/Done checks.
C34_SlotsAreExact == ~crashed => semaphore.value = Cardinality(Holding)

\* C35: no slot leak.  Whenever no await is in progress the semaphore's value
\* is 0, however the awaits ended (result, facility error, already
\* running/done, cancellation), and the value never goes below 0 (as an
\* unsigned counter: it never wraps past the number of tasks).
C35_NoSlotLeak ==
    ~crashed =>
        /\ (\A t \in Tasks : ~Active(t)) => semaphore.value = 0
        /\ semaphore.value <= Cardinality(Tasks)

\* Two awaits are over, one with its result and one by cancellation while
\* the operation was running, and nothing is in progress.
C35_Witness ==
    /\ ~crashed
    /\ \A t \in Tasks : ~Active(t)
    /\ \E t \in Tasks : tasks[t].pc = "finished" /\ tasks[t].res.kind = "ok"
    /\ \E t \in Tasks : /\ tasks[t].pc = "finished"
                        /\ tasks[t].res.kind = "CancelledError"
                        /\ req[tasks[t].op].cancels > 0
    /\ semaphore.value = 0

\* C36: after close() nothing touches the freed storage.  Once an operation
\* is closed and the facility holds no request of it, no step (setting the
\* buffer, awaiting, polling, asking for the result) dereferences the freed
\* control block or buffer: the process does not crash and nothing is used
\* after free.
C36_ClosedIsInert ==
    [][/\ \A o \in Ops :
              (ops[o].null /\ req[o].st # "pending") =>
                  (crashed' = crashed /\ uaf' = uaf)
       /\ (lop.closed /\ lreq.st # "pending") =>
              (crashed' = crashed /\ uaf' = uaf)]_vars

\* The first bytes of an allocation are the data.
Holds(buf, data) == Len(buf) >= Len(data) /\ SubSeq(buf, 1, Len(data)) = data

\* What read(size, ...) asks for: size -1 is the size of the file.
Asked(size) == IF size = -1 THEN Len(file) ELSE size

\* C37: the operation built matches the method called.  write(data, offset)
\* builds a Write at that offset whose buffer holds data and whose length is
\* len(data); read(size, offset) builds a Read of that size at that offset;
\* flush() builds a Sync with no payload; the kind handed to the facility is
\* the kind of the operation.
C37_KindMatchesMethod ==
    [][/\ \A o \in Ops : (~Built(o) /\ ops'[o].ref # "none") =>
              /\ \A data \in DataSet, offset \in Offsets :
                     Write(o, data, offset) =>
                         /\ ops'[o].opcode = "LIO_WRITE" /\ ops'[o].offset = offset
                         /\ ops'[o].nbytes = Len(data) /\ Holds(ops'[o].buf, data)
              /\ \A size \in ReadSizes, offset \in Offsets :
                     Read(o, size, offset) =>
                         /\ ops'[o].opcode = "LIO_READ" /\ ops'[o].offset = offset
                         /\ ops'[o].nbytes = Asked(size)
              /\ Flush(o) => ops'[o].opcode = "LIO_NOP" /\ ops'[o].nbytes = 0
       /\ (~top.built /\ top'.built) =>
              /\ \A data \in DataSet, offset \in Offsets :
                     ThreadWrite(data, offset) =>
                         /\ top'.opcode = "LIO_WRITE" /\ top'.offset = offset
                         /\ top'.nbytes = Len(data) /\ Holds(top'.buf, data)
              /\ \A size \in ReadSizes, offset \in Offsets :
                     ThreadRead(size, offset) =>
                         /\ top'.opcode = "LIO_READ" /\ top'.offset = offset
                         /\ top'.nbytes = Asked(size)
              /\ ThreadFlush => top'.opcode = "LIO_NOP" /\ top'.nbytes = 0
       /\ (~lop.built /\ lop'.built) =>
              /\ \A data \in DataSet, offset \in Offsets :
                     LegacyWrite(data, offset) =>
                         /\ lop'.state = "LIO_WRITE" /\ lop'.offset = offset
                         /\ lop'.nbytes = Len(data) /\ Holds(lop'.buf, data)
              /\ \A size \in ReadSizes, offset \in Offsets :
                     LegacyRead(size, offset) =>
                         /\ lop'.state = "LIO_READ" /\ lop'.offset = offset
                         /\ lop'.nbytes = Asked(size)
              /\ LegacyFlush => lop'.state = "LIO_NOP" /\ lop'.nbytes = 0
       /\ (treq.st # "pending" /\ treq'.st = "pending") =>
              treq'.kind = top.opcode]_vars

====
